---- MODULE Spec2Model ----
(***************************************************************************)
(* Model of freelanceru-notifier (src/main.py, src/config.py): a poller    *)
(* that fetches an RSS feed, selects the entries that are new with respect *)
(* to the last seen publication date, drops the blacklisted ones and hands *)
(* the rest, as a pack, to a Telegram sender.                              *)
(*                                                                         *)
(* Strings are sequences of one-character strings.  Publication dates are  *)
(* positive integers; the conversion of from_feed_entry is taken in a time *)
(* zone without clock changes, where it preserves order.  A link is an     *)
(* integer that identifies the feed item; an item keeps its publication    *)
(* date, title and description over all fetches.                           *)
(***************************************************************************)
EXTENDS Integers, Sequences, FiniteSets, TLC

VARIABLES
    pc,            \* where main is: "update", "send", "resend", "sleep", "interrupted", "crashed"
    last_pubdate,  \* FeedPoller.last_pubdate
    entries,       \* FeedPoller.entries
    blacklist,     \* FeedPoller.blacklist
    news,          \* the list returned by the last FeedPoller.update
    slept,         \* the duration of the last time.sleep of poll_packs (0: none)
    fetched,       \* history: outcome of the last fetch: "none", "ok", "failed"
    start_pubdate, \* history: last_pubdate when the last update began
    emitted,       \* history: links of the entries returned by updates before the last one
    send_pack_outcome, \* history: how send_pack ended in this iteration of poll_packs: "none", "returned", "raised"
    sent,          \* history: the bot.send_message calls finished in this iteration, in order
    delta,         \* the delta measured at the end of the last iteration of poll_packs
    seen_max       \* history: greatest pubdate of the good fetches before the last update (None: none)

vars == <<pc, last_pubdate, entries, blacklist, news, slept, fetched,
          start_pubdate, emitted, send_pack_outcome, sent, delta, seen_max>>

\* ---------------------------------------------------------------- bounds
MaxLink == 3
MaxFeedLen == 2
MaxBlacklist == 1

\* ------------------------------------------------------------- constants
POLL_INTERVAL == 60

\* FeedPoller.last_pubdate = None; every publication date is >= 1
None == 0

\* ---------------------------------------------------------------- strings
Range(s) == {s[i] : i \in DOMAIN s}

\* str.lower, for one character
LowerChar(c) ==
    CASE c = "A" -> "a"
      [] c = "B" -> "b"
      [] OTHER -> c

\* str.lower
Lower(s) == [i \in DOMAIN s |-> LowerChar(s[i])]

\* the `in` operator of str: w occurs in s as a contiguous run
IsSubstring(w, s) ==
    \E i \in 0..(Len(s) - Len(w)) : SubSeq(s, i + 1, i + Len(w)) = w

\* the whitespace of str.strip
IsSpace(c) == c \in {" ", "\n"}

RECURSIVE LStrip(_)
LStrip(s) == IF s # <<>> /\ IsSpace(Head(s)) THEN LStrip(Tail(s)) ELSE s

RECURSIVE RStrip(_)
RStrip(s) ==
    IF s # <<>> /\ IsSpace(s[Len(s)]) THEN RStrip(SubSeq(s, 1, Len(s) - 1)) ELSE s

\* str.strip
Strip(s) == RStrip(LStrip(s))

\* ------------------------------------------------------------------ feed
\* What feedparser.parse can return for a feed item: the items of the feed
\* are numbered by their link.
RawTitle(l) ==
    CASE l % 3 = 1 -> <<" ", "A", "b">>
      [] l % 3 = 2 -> <<"b">>
      [] OTHER     -> <<"a", "b", " ">>

RawDescription(l) == IF l % 2 = 0 THEN <<"B", "a", " ">> ELSE <<>>

FeedItem(l) ==
    [title |-> RawTitle(l), published_parsed |-> (l \div 2) + 1,
     description |-> RawDescription(l), link |-> l]

\* feed.entries: up to MaxFeedLen different items, in any order
Feeds ==
    {f \in UNION {[1..n -> {FeedItem(l) : l \in 1..MaxLink}] : n \in 0..MaxFeedLen} :
        \A i, j \in DOMAIN f : i # j => f[i].link # f[j].link}

\* config.BLOCKED_KEYWORDS: any list of words
Keywords == {<<"A", "b">>, <<"b", "a">>}

Blacklists == UNION {[1..n -> Keywords] : n \in 0..MaxBlacklist}

\* seconds from the start of an iteration to its end
Deltas == {POLL_INTERVAL - 1, POLL_INTERVAL + 15}

\* ------------------------------------------------------------ FeedPoller
from_feed_entry(e) ==
    [title |-> Strip(e.title), pubdate |-> e.published_parsed,
     description |-> Strip(e.description), link |-> e.link]

is_blacklist(e) ==
    LET title == Lower(e.title)
        description == Lower(e.description)
    IN  \E i \in DOMAIN blacklist :
            IsSubstring(blacklist[i], title) \/ IsSubstring(blacklist[i], description)

\* NotNew without the test for a missing last_pubdate
NotNew_NoBaseline(entry, last) == entry.pubdate < last

\* the first `continue` of the loop of update
NotNew(entry, last) == last = None \/ entry.pubdate < last

Reverse(s) == [i \in DOMAIN s |-> s[Len(s) + 1 - i]]

\* NewEntries putting each new entry in front of the list
NewEntries_Prepend(ents, last) ==
    Reverse(SelectSeq(ents, LAMBDA e : ~NotNew(e, last) /\ ~is_blacklist(e)))

\* NewEntries without the blacklist test
NewEntries_NoFilter(ents, last) == SelectSeq(ents, LAMBDA e : ~NotNew(e, last))

NewEntries(ents, last) ==
    SelectSeq(ents, LAMBDA e : ~NotNew(e, last) /\ ~is_blacklist(e))

\* max([e.pubdate for e in ents], default=None)
MaxPubdate(ents) ==
    IF ents = <<>> THEN None
    ELSE CHOOSE d \in {ents[i].pubdate : i \in DOMAIN ents} :
            \A i \in DOMAIN ents : ents[i].pubdate <= d

Links(s) == {s[i].link : i \in DOMAIN s}

\* the greatest pubdate of all good fetches so far
SeenAfter ==
    IF fetched = "ok" /\ MaxPubdate(entries) > seen_max
    THEN MaxPubdate(entries) ELSE seen_max

\* AfterUpdate dropping the pack instead of yielding it
AfterUpdate_NoYield(pack) == "sleep"

\* AfterUpdate without the test `if news`
AfterUpdate_Always(pack) == "send"

\* what poll_packs does with the result of update: yield it to the loop of
\* main when it is not empty, else go on to the sleep
AfterUpdate(pack) == IF pack # <<>> THEN "send" ELSE "sleep"

\* UpdateFailed without the early return: the entries feedparser could still
\* read are processed as after a good fetch
UpdateFailed_NoReturn ==
    /\ pc = "update"
    /\ \E feed \in Feeds :
        /\ entries' = [i \in DOMAIN feed |-> from_feed_entry(feed[i])]
        /\ news' = NewEntries(entries', last_pubdate)
        /\ last_pubdate' = MaxPubdate(entries')
    /\ fetched' = "failed"
    /\ start_pubdate' = last_pubdate
    /\ emitted' = emitted \cup Links(news)
    /\ pc' = AfterUpdate(news')
    /\ send_pack_outcome' = "none"
    /\ sent' = <<>>
    /\ seen_max' = SeenAfter
    /\ UNCHANGED <<blacklist, slept, delta>>

\* update, when feedparser reports a bozo_exception
UpdateFailed ==
    /\ pc = "update"
    /\ news' = <<>>
    /\ fetched' = "failed"
    /\ start_pubdate' = last_pubdate
    /\ emitted' = emitted \cup Links(news)
    /\ pc' = AfterUpdate(news')
    /\ send_pack_outcome' = "none"
    /\ sent' = <<>>
    /\ seen_max' = SeenAfter
    /\ UNCHANGED <<last_pubdate, entries, blacklist, slept, delta>>

\* UpdateOk taking the new last_pubdate from the new entries only
UpdateOk_MaxOfNew(feed) ==
    /\ pc = "update"
    /\ entries' = [i \in DOMAIN feed |-> from_feed_entry(feed[i])]
    /\ news' = NewEntries(entries', last_pubdate)
    /\ last_pubdate' = MaxPubdate(news')
    /\ fetched' = "ok"
    /\ start_pubdate' = last_pubdate
    /\ emitted' = emitted \cup Links(news)
    /\ pc' = AfterUpdate(news')
    /\ send_pack_outcome' = "none"
    /\ sent' = <<>>
    /\ seen_max' = SeenAfter
    /\ UNCHANGED <<blacklist, slept, delta>>

\* update, when the feed was parsed
UpdateOk(feed) ==
    /\ pc = "update"
    /\ entries' = [i \in DOMAIN feed |-> from_feed_entry(feed[i])]
    /\ news' = NewEntries(entries', last_pubdate)
    /\ last_pubdate' = MaxPubdate(entries')
    /\ fetched' = "ok"
    /\ start_pubdate' = last_pubdate
    /\ emitted' = emitted \cup Links(news)
    /\ pc' = AfterUpdate(news')
    /\ send_pack_outcome' = "none"
    /\ sent' = <<>>
    /\ seen_max' = SeenAfter
    /\ UNCHANGED <<blacklist, slept, delta>>

\* -------------------------------------------------------- TelegramSender
TARGET_CHAT_ID == ""

SEND_BY_PACKS == FALSE

format_entry_msg(entry) ==
    Strip(<<"<a href=\"", ToString(entry.link), "\">">> \o entry.title
          \o <<"</a>", "\n">> \o entry.description)

\* "\n\n".join of the messages of the entries
RECURSIVE format_pack_msg(_)
format_pack_msg(pack) ==
    IF pack = <<>> THEN <<>>
    ELSE IF Len(pack) = 1 THEN format_entry_msg(pack[1])
    ELSE format_entry_msg(pack[1]) \o <<"\n", "\n">> \o format_pack_msg(Tail(pack))

format_error_msg(msg) ==
    <<"TelegramError", ": ", "error">>
        \o (IF msg # <<>> THEN <<"; Attempted to send:\n">> \o msg ELSE <<>>)

\* bot.send_message of the pack, with its outcome
PackCall(ok) ==
    [chat_id |-> TARGET_CHAT_ID, text |-> format_pack_msg(news),
     parse_mode |-> "HTML", ok |-> ok]

\* bot.send_message of the error message, with its outcome
ErrorCall(ok) ==
    [chat_id |-> TARGET_CHAT_ID, text |-> format_error_msg(format_pack_msg(news)),
     parse_mode |-> "None", ok |-> ok]

\* send_pack: bot.send_message of the pack succeeds
SendOk ==
    /\ pc = "send"
    /\ pc' = "sleep"
    /\ send_pack_outcome' = "returned"
    /\ sent' = Append(sent, PackCall(TRUE))
    /\ UNCHANGED <<last_pubdate, entries, blacklist, news, slept, fetched,
                   start_pubdate, emitted, delta, seen_max>>

\* SendFailed without the follow-up: the error is logged and send_pack returns
SendFailed_NoFollowUp ==
    /\ pc = "send"
    /\ pc' = "sleep"
    /\ send_pack_outcome' = "returned"
    /\ sent' = Append(sent, PackCall(FALSE))
    /\ UNCHANGED <<last_pubdate, entries, blacklist, news, slept, fetched,
                   start_pubdate, emitted, delta, seen_max>>

\* SendFailed putting last_pubdate back, for the pack to be found again
SendFailed_Rollback ==
    /\ pc = "send"
    /\ pc' = "resend"
    /\ sent' = Append(sent, PackCall(FALSE))
    /\ last_pubdate' = start_pubdate
    /\ UNCHANGED <<entries, blacklist, news, slept, fetched,
                   start_pubdate, emitted, send_pack_outcome, delta, seen_max>>

\* send_pack: bot.send_message of the pack raises TelegramError
SendFailed ==
    /\ pc = "send"
    /\ pc' = "resend"
    /\ sent' = Append(sent, PackCall(FALSE))
    /\ UNCHANGED <<last_pubdate, entries, blacklist, news, slept, fetched,
                   start_pubdate, emitted, send_pack_outcome, delta, seen_max>>

\* send_pack: bot.send_message of the error message succeeds
ResendOk ==
    /\ pc = "resend"
    /\ pc' = "sleep"
    /\ send_pack_outcome' = "returned"
    /\ sent' = Append(sent, ErrorCall(TRUE))
    /\ UNCHANGED <<last_pubdate, entries, blacklist, news, slept, fetched,
                   start_pubdate, emitted, delta, seen_max>>

\* send_pack: bot.send_message of the error message raises TelegramError,
\* inside the except clause: nothing in send_pack, poll_packs or main
\* catches it
ResendFailed ==
    /\ pc = "resend"
    /\ pc' = "crashed"
    /\ send_pack_outcome' = "raised"
    /\ sent' = Append(sent, ErrorCall(FALSE))
    /\ UNCHANGED <<last_pubdate, entries, blacklist, news, slept, fetched,
                   start_pubdate, emitted, delta, seen_max>>

\* ------------------------------------------------------------ poll_packs
\* Sleep without the test delta < interval
Sleep_Unguarded(d) ==
    /\ pc = "sleep"
    /\ delta' = d
    /\ slept' = POLL_INTERVAL - d
    /\ pc' = "update"
    /\ send_pack_outcome' = "none"
    /\ sent' = <<>>
    /\ UNCHANGED <<last_pubdate, entries, blacklist, news, fetched,
                   start_pubdate, emitted, seen_max>>

\* the end of an iteration of poll_packs
Sleep(d) ==
    /\ pc = "sleep"
    /\ delta' = d
    /\ slept' = IF d < POLL_INTERVAL THEN POLL_INTERVAL - d ELSE 0
    /\ pc' = "update"
    /\ send_pack_outcome' = "none"
    /\ sent' = <<>>
    /\ UNCHANGED <<last_pubdate, entries, blacklist, news, fetched,
                   start_pubdate, emitted, seen_max>>

\* ------------------------------------------------------------------ main
Running == {"update", "send", "resend", "sleep"}

\* KeyboardInterrupt, raised wherever main is
Interrupt ==
    /\ pc \in Running
    /\ pc' = "interrupted"
    /\ UNCHANGED <<last_pubdate, entries, blacklist, news, slept, fetched,
                   start_pubdate, emitted, send_pack_outcome, sent, delta, seen_max>>

Init ==
    /\ pc = "update"
    /\ last_pubdate = None
    /\ entries = <<>>
    /\ blacklist \in Blacklists
    /\ news = <<>>
    /\ slept = 0
    /\ fetched = "none"
    /\ start_pubdate = None
    /\ emitted = {}
    /\ send_pack_outcome = "none"
    /\ sent = <<>>
    /\ delta = 0
    /\ seen_max = None

Next ==
    \/ UpdateFailed
    \/ \E feed \in Feeds : UpdateOk(feed)
    \/ SendOk
    \/ SendFailed
    \/ ResendOk
    \/ ResendFailed
    \/ \E d \in Deltas : Sleep(d)
    \/ Interrupt

Spec == Init /\ [][Next]_vars

\* time.sleep returns: an iteration that reached its end starts the next one
LiveSpec == Spec /\ WF_vars(\E d \in Deltas : Sleep(d))

\* ---------------------------------------------------------------- claims
Pubdates(s) == {s[i].pubdate : i \in DOMAIN s}

\* d is the greatest publication date of the entries s
IsMaxOf(d, s) == d \in Pubdates(s) /\ \A x \in Pubdates(s) : x <= d

\* C1: last_pubdate never decreases from one step to the next, and once it
\* is set it never becomes None again.
WatermarkMonotonic ==
    [][/\ last_pubdate # None => last_pubdate' # None
       /\ (last_pubdate # None /\ last_pubdate' # None) => last_pubdate' >= last_pubdate]_vars

\* C2: every entry of the pack returned by update has a publication date
\* strictly greater than the last_pubdate held when that update began; an
\* entry whose date equals it is never in the pack.
StrictlyNewerInPack ==
    fetched = "ok" =>
        \A i \in DOMAIN news :
            start_pubdate # None /\ news[i].pubdate > start_pubdate

\* C3: no entry returned by update was returned by an earlier update (the
\* feed reports the same publication date for an item in every fetch).
NoRedelivery == Links(news) \cap emitted = {}

\* C4: the loop of main is never ended by a delivery failure: main is
\* running, or it was ended by the operator's interrupt.
LoopEndsOnlyByInterrupt == pc \in Running \cup {"interrupted"}

\* C5: send_pack never raises, whatever the outcomes of the send of the pack
\* and of the send of the error message.
SendPackNeverRaises == send_pack_outcome # "raised"

\* C6: a good fetch with no entries leaves last_pubdate as it was when the
\* update began and returns an empty pack.
EmptyFetchIdempotent ==
    (fetched = "ok" /\ entries = <<>>) =>
        (last_pubdate = start_pubdate /\ news = <<>>)

\* C7: an update that began with last_pubdate = None returns an empty pack,
\* and after a good fetch with entries last_pubdate is the greatest
\* publication date of the fetched entries.
FirstPollBaseline ==
    (fetched # "none" /\ start_pubdate = None) =>
        /\ news = <<>>
        /\ pc # "send" /\ pc # "resend"
        /\ (fetched = "ok" /\ entries # <<>>) => IsMaxOf(last_pubdate, entries)

\* a first good fetch of two entries that are not blacklisted, of different dates
FirstPollBaselineWitness ==
    /\ fetched = "ok"
    /\ start_pubdate = None
    /\ Len(entries) = 2
    /\ entries[1].pubdate > entries[2].pubdate
    /\ \A i \in DOMAIN entries : ~is_blacklist(entries[i])
    /\ news = <<>>
    /\ last_pubdate = entries[1].pubdate

\* C8: after a failed fetch, update has returned an empty pack and left
\* last_pubdate unchanged, nothing is sent in that iteration, and the
\* iteration, once it reached its end, is followed by the next update
\* unless the operator interrupts.
FetchFailureRecovery ==
    /\ [](fetched = "failed" =>
            /\ news = <<>>
            /\ last_pubdate = start_pubdate
            /\ pc \in {"sleep", "update", "interrupted"})
    /\ (fetched = "failed" /\ pc = "sleep") ~> (pc \in {"update", "interrupted"})

\* a failed fetch while last_pubdate is set and entries are kept from before
FetchFailureRecoveryWitness ==
    /\ fetched = "failed"
    /\ start_pubdate # None
    /\ entries # <<>>
    /\ \E i \in DOMAIN entries : entries[i].pubdate >= start_pubdate /\ ~is_blacklist(entries[i])
    /\ pc = "update"

\* C9: after a good fetch with at least one entry, last_pubdate is the
\* greatest publication date of all fetched entries, the old and the
\* blacklisted ones included.
WatermarkIsMaxOfFetched ==
    (fetched = "ok" /\ entries # <<>>) => IsMaxOf(last_pubdate, entries)

\* a good fetch whose latest entry is blacklisted and is not in the pack
WatermarkIsMaxOfFetchedWitness ==
    /\ fetched = "ok"
    /\ start_pubdate # None
    /\ news # <<>>
    /\ \E i \in DOMAIN entries :
        /\ is_blacklist(entries[i])
        /\ entries[i].pubdate = last_pubdate
        /\ \A j \in DOMAIN news : news[j].pubdate < entries[i].pubdate

\* C10: is_blacklist(entry) holds iff some word of the blacklist, lower-cased,
\* occurs in the lower-cased title or in the lower-cased description.
KeywordFilterCorrect ==
    \A i \in DOMAIN entries :
        is_blacklist(entries[i]) <=>
            \E w \in Range(blacklist) :
                \/ IsSubstring(Lower(w), Lower(entries[i].title))
                \/ IsSubstring(Lower(w), Lower(entries[i].description))

\* the link tokens of a rendered text, in order
LinkTokens == {ToString(l) : l \in 1..MaxLink}

LinksIn(text) == SelectSeq(text, LAMBDA t : t \in LinkTokens)

\* C11: the entries of the pack are entries of the fetch, in the order of the
\* fetch, and the text sent for the pack names them in that same order.
PackOrderPreserved ==
    /\ fetched = "ok" =>
        /\ \A i \in DOMAIN news : \E a \in DOMAIN entries : entries[a] = news[i]
        /\ \A i, j \in DOMAIN news : i < j =>
                \E a, b \in DOMAIN entries :
                    a < b /\ entries[a] = news[i] /\ entries[b] = news[j]
    /\ sent # <<>> =>
        LinksIn(sent[1].text) = [i \in DOMAIN news |-> ToString(news[i].link)]

\* a pack of two entries, the later one first in the feed, has been sent
PackOrderPreservedWitness ==
    /\ Len(news) = 2
    /\ news[1].pubdate > news[2].pubdate
    /\ news[1].link > news[2].link
    /\ Len(sent) = 1
    /\ sent[1].ok

Max0(x) == IF x > 0 THEN x ELSE 0

\* C12: at the end of an iteration poll_packs sleeps max(0, interval - delta),
\* never a negative time, and not at all when delta is at least the
\* interval; the next update follows.
SleepIsIntervalMinusElapsed ==
    [][pc = "sleep" /\ pc' # "interrupted" =>
        /\ pc' = "update"
        /\ slept' >= 0
        /\ slept' = Max0(POLL_INTERVAL - delta')
        /\ delta' >= POLL_INTERVAL => slept' = 0]_vars

\* an iteration with a delivery took longer than the interval: no sleep
SleepIsIntervalMinusElapsedWitness ==
    /\ pc = "update"
    /\ news # <<>>
    /\ delta > POLL_INTERVAL
    /\ slept = 0

\* C13: the operator's interrupt ends main only between two iterations,
\* never while a fetch or a delivery is in flight.
InterruptOnlyBetweenCycles ==
    [][pc' = "interrupted" => pc \notin {"update", "send", "resend"}]_vars

\* the calls that send a pack or an entry, not an error message
PrimaryCalls == {k \in DOMAIN sent : sent[k].parse_mode = "HTML"}

\* C14: when send_pack has delivered a pack, it has sent one message if
\* SEND_BY_PACKS is true and one message per entry of the pack if it is false.
DeliveryModeRespected ==
    (send_pack_outcome = "returned" /\ \A k \in DOMAIN sent : sent[k].ok) =>
        Cardinality(PrimaryCalls) = (IF SEND_BY_PACKS THEN 1 ELSE Len(news))

\* C15: send_pack sends the pack once; it sends one error message to the same
\* chat if that send failed and none if it succeeded; it never sends more
\* than two messages and never sends the pack again.
SingleFollowUp ==
    /\ Len(sent) <= 2
    /\ pc = "send" => sent = <<>>
    /\ pc = "resend" => (Len(sent) = 1 /\ ~sent[1].ok)
    /\ send_pack_outcome # "none" =>
        (sent # <<>> /\ Len(sent) = (IF sent[1].ok THEN 1 ELSE 2))
    /\ sent # <<>> => PrimaryCalls = {1}
    /\ Len(sent) = 2 =>
        /\ sent[2].chat_id = sent[1].chat_id
        /\ sent[2].text # sent[1].text

\* the pack failed, the error message went through, send_pack returned
SingleFollowUpWitness ==
    /\ send_pack_outcome = "returned"
    /\ Len(sent) = 2
    /\ ~sent[1].ok
    /\ sent[2].ok

\* C16: an update begins only after the end of the previous iteration, and an
\* iteration with a pack reaches its end only after send_pack has returned
\* for that pack; nothing is fetched while a delivery is in flight.
NoOverlap ==
    [][/\ (pc' = "sleep" /\ news' # <<>>) =>
            /\ pc \in {"send", "resend"}
            /\ send_pack_outcome' = "returned"
            /\ sent' # <<>>
            /\ sent'[1].text = format_pack_msg(news')
       /\ pc' = "update" => pc = "sleep"
       /\ (pc \in {"send", "resend"}) => (UNCHANGED <<news, entries, fetched>>)]_vars

\* a pack was delivered, the loop slept, and the next update is about to begin
NoOverlapWitness ==
    /\ pc = "update"
    /\ news # <<>>
    /\ slept > 0
    /\ emitted # {}

\* C17: no entry of a pack, and no entry named in a message sent for a pack,
\* is blacklisted, however late its publication date.
NoBlockedInPack ==
    /\ \A i \in DOMAIN news : ~is_blacklist(news[i])
    /\ \A k \in DOMAIN sent : \A i \in DOMAIN entries :
            ToString(entries[i].link) \in Range(LinksIn(sent[k].text))
                => ~is_blacklist(entries[i])

\* a pack is being sent while a newer, blacklisted entry of the fetch was left out
NoBlockedInPackWitness ==
    /\ pc = "send"
    /\ start_pubdate # None
    /\ \E i \in DOMAIN entries :
        /\ is_blacklist(entries[i])
        /\ entries[i].pubdate > start_pubdate
        /\ entries[i].link \notin Links(news)

\* C18: send_pack is never called with an empty pack: an iteration whose
\* pack is empty sends nothing and goes to the sleep.
NeverSendEmptyPack ==
    /\ pc \in {"send", "resend"} => news # <<>>
    /\ sent # <<>> => (news # <<>> /\ sent[1].text # <<>>)
    /\ (fetched # "none" /\ news = <<>>) =>
        /\ pc \in {"sleep", "update", "interrupted"}
        /\ sent = <<>>
        /\ send_pack_outcome = "none"

\* a good fetch whose only new entries are blacklisted: the loop is at the sleep
NeverSendEmptyPackWitness ==
    /\ pc = "sleep"
    /\ fetched = "ok"
    /\ start_pubdate # None
    /\ news = <<>>
    /\ \E i \in DOMAIN entries :
        is_blacklist(entries[i]) /\ entries[i].pubdate > start_pubdate

\* C19: once a good fetch has had entries, every entry of a later good fetch
\* that is not blacklisted and is later than every publication date of the
\* earlier fetches is in the pack of that update.
NoLostEntries ==
    (fetched = "ok" /\ seen_max # None) =>
        \A i \in DOMAIN entries :
            (entries[i].pubdate > seen_max /\ ~is_blacklist(entries[i]))
                => entries[i].link \in Links(news)

\* C20: send_pack changes nothing of the poller, whether the sends succeed or
\* fail, and last_pubdate already holds the greatest date of the fetch when
\* the pack is handed to send_pack.
DeliveryLeavesPollerState ==
    [][/\ (pc \in {"send", "resend"}) => (UNCHANGED <<last_pubdate, entries, blacklist>>)
       /\ (pc' \in {"send", "resend"}) => IsMaxOf(last_pubdate', entries')]_vars

\* the send of a pack that moved last_pubdate forward failed, and send_pack is over
DeliveryLeavesPollerStateWitness ==
    /\ pc = "sleep"
    /\ Len(sent) = 2
    /\ start_pubdate # None
    /\ last_pubdate > start_pubdate

TypeOK ==
    /\ pc \in Running \cup {"interrupted", "crashed"}
    /\ last_pubdate \in Nat
    /\ fetched \in {"none", "ok", "failed"}
    /\ send_pack_outcome \in {"none", "returned", "raised"}
    /\ emitted \subseteq 1..MaxLink
====
